---------------------------- MODULE Spec2Model ----------------------------
(***************************************************************************)
(* A model of the numerical core of jsanov: the online Bayes beat tracker  *)
(* (src/onlinebeat.js), the spectrogram, mel filterbank, novelty and       *)
(* dynamic programming beat tracking functions (src/features.js), and the  *)
(* samples, recording and spectrogram promise of SampledAudio              *)
(* (src/audio.js).                                                         *)
(*                                                                         *)
(* Numbers.  JavaScript numbers are doubles; the model computes with exact *)
(* integers.  A probability is a numerator over a denominator shared by    *)
(* the whole grid, exp and log are evaluated by their series in fixed      *)
(* point (BScale, Precision), and the values that are not numbers (NaN,    *)
(* +-Infinity, undefined) are explicit.  Rounding of doubles is not        *)
(* modelled.                                                               *)
(***************************************************************************)
EXTENDS Integers, Sequences, FiniteSets, TLC

\* ---- OnlineBeat (src/onlinebeat.js) ----
VARIABLES
  args,      \* the constructor's arguments
  Ms,        \* this.Ms: the number of phase slots of each tempo level
  f,         \* this.f: [nan, num, den], f[i][k] = num[i][k+1]/den, or all NaN
  btrans,    \* this.btrans, in units of 1/BScale
  max,       \* this.max
  phase,     \* this.phase: [nan, num, den], the sum over i of num[i]/(Ms[i]*den), or NaN
  gamma,     \* this.gamma: <<numerator, denominator>>
  calls,     \* how many filter calls were made
  novs,      \* the arguments of the filter calls made, in order
  last       \* what the last filter call saw: its argument, its norm, the state before it

  \* ---- getBeats (src/features.js) ----
VARIABLES
  inp,       \* the arguments of getBeats: novfn, sr, hop, tempo, alpha
  cscore,    \* cscore[j+1] is cscore[j] of the code: [nan, v], v in units of 1/Precision
  backlink,  \* backlink[j+1] is backlink[j] of the code
  txcost,    \* txcost[k+1] is txcost[k] of the code
  ii,        \* i, the index of the outer loop
  idxcscore, \* the index of the best cumulative score so far
  beats,     \* the beats collected, then returned
  pc         \* "dp" (the loop of lines 193-213), "backtrace" (216-218), "done" (returned)

gbVars == <<inp, cscore, backlink, txcost, ii, idxcscore, beats, pc>>

\* ---- getNovfn and getSuperfluxNovfn (src/features.js) ----
VARIABLES
  variant,   \* "getNovfn" or "getSuperfluxNovfn"
  mu,        \* the gap between the frames compared: 1 in getNovfn
  S,         \* the frames compared: Sdb of getNovfn, the log mel frames of getSuperfluxNovfn
  novfn,     \* the novelty function being filled
  ni,        \* the index of the outer loop
  npc,       \* "alloc" (before new Float32Array), "loop", "done" (resolved), "threw"
  result     \* what the promise was resolved with, once npc = "done"

nvVars == <<variant, mu, S, novfn, ni, npc, result>>

\* ---- getSpectrogram (src/features.js) ----
VARIABLES
  sargs,     \* the arguments of getSpectrogram: len = samples.length, win, hop, useDb
  W,         \* the number of frames computed at line 72: a number, +-Infinity or NaN
  frames,    \* S of getSpectrogram: of each frame, the bounds of the slice it was made of
  si,        \* the index of the loop
  spc        \* "start", "loop", "resolved", "rejected"

sgVars == <<sargs, W, frames, si, spc>>

\* ---- getMelFilterbank (src/features.js) ----
VARIABLES
  margs,     \* the arguments: win, nBins, e0 = minFreq*win/sr and the ratio a, as fractions
  bins,      \* bins[i+1] is bins[i] of the code, after the rounding
  Mel,       \* Mel[k+1][i+1] is Mel[k][i] of the code, a fraction <<numerator, denominator>>
  mi,        \* the index of the loop over the filters
  mpc        \* "fill", "returned", "threw"

mfVars == <<margs, bins, Mel, mi, mpc>>

\* ---- SampledAudio (src/audio.js, the class of lines 313-480) ----
VARIABLES
  samples,       \* this.samples, by where it came from: 0 is the initial [], 1 and 2 are
                 \* arrays given to setSamples, 10+p is the audio decoded for promise p
  audioPromise,  \* this.audioPromise: 0 is null, p >= 1 is the p-th promise made
  made,          \* how many audio promises were made
  settled,       \* the audio promises that are resolved
  recorder,      \* "none", "asking" (getUserMedia pending), "recording", "stopped"
  buttons,       \* whether this.startButton and this.stopButton are set
  requests       \* the promises returned by getSpectrogram, in the order of the calls

saVars == <<samples, audioPromise, made, settled, recorder, buttons, requests>>

vars == <<args, Ms, f, btrans, max, phase, gamma, calls, novs, last,
          inp, cscore, backlink, txcost, ii, idxcscore, beats, pc,
          variant, mu, S, novfn, ni, npc, result,
          sargs, W, frames, si, spc,
          margs, bins, Mel, mi, mpc,
          samples, audioPromise, made, settled, recorder, buttons, requests>>

obVars == <<args, Ms, f, btrans, max, phase, gamma, calls, novs, last>>

-----------------------------------------------------------------------------
(* Bounds of the model *)

\* The longest sequence of filter calls explored.
MaxCalls == 3

\* Fixed-point unit of the tempo transition table: btrans = floor(BScale * exp(-x)).
BScale == 16

\* Fixed-point unit in which the series of exp and log are summed, and the unit of
\* the novelty values and scores of getBeats.
Precision == 1000

\* The longest novelty function handed to getBeats.
MaxN == 8

\* The most frames of a spectrogram handed to the novelty functions.
MaxFrames == 3

\* The most samples handed to getSpectrogram, and the most frames it is followed for.
MaxLen == 5

\* The largest number of mel bins (nBins) of a filterbank.
MaxBins == 3

\* The largest number of recordings stopped, and of getSpectrogram calls, of a
\* SampledAudio.
MaxRecordings == 2
MaxRequests == 2

-----------------------------------------------------------------------------
(* Arithmetic helpers *)

Abs(x) == IF x < 0 THEN -x ELSE x

RECURSIVE GCD(_, _)
GCD(a, b) == IF b = 0 THEN a ELSE GCD(b, a % b)

RECURSIVE SumSeq(_)
SumSeq(s) == IF s = <<>> THEN 0 ELSE Head(s) + SumSeq(Tail(s))

RECURSIVE GCDSeq(_)
GCDSeq(s) == IF s = <<>> THEN 0 ELSE GCD(Head(s), GCDSeq(Tail(s)))

\* The sum, and the gcd, of all entries of a grid (a sequence of sequences).
GridSum(g) == SumSeq([i \in 1..Len(g) |-> SumSeq(g[i])])
GridGCD(g) == GCDSeq([i \in 1..Len(g) |-> GCDSeq(g[i])])

\* Math.floor(a/b) for integers a and b # 0.
FloorDiv(a, b) == IF b > 0 THEN a \div b ELSE (-a) \div (-b)

\* The value of an optional argument: {} is undefined, {v} is v.
Default(opt, d) == IF opt = {} THEN d ELSE CHOOSE v \in opt : TRUE

\* Sum of the series of Precision * exp(p/q), p >= 0, q > 0: the term t_n = t_(n-1)*p/(q*n).
RECURSIVE ExpSeries(_, _, _, _)
ExpSeries(p, q, n, term) ==
  IF term = 0 THEN 0 ELSE term + ExpSeries(p, q, n + 1, (term * p) \div (q * (n + 1)))

\* floor(BScale * Math.exp(-p/q)), which is 0 once exp(p/q) > BScale.
ExpNeg(p, q) ==
  IF p >= 8 * q THEN 0
  ELSE (BScale * Precision) \div ExpSeries(p, q, 0, Precision)

-----------------------------------------------------------------------------
(* OnlineBeat: the constructor (src/onlinebeat.js, lines 19-69) *)

DefaultLam == 80
DefaultMinBPM == 40
DefaultMaxBPM == 200
DefaultGamma == <<3, 100>>
InitMax == 150

\* A value that is NaN, for a grid of the shape of Ms and for a scalar.
NaNGrid(ms) == [nan |-> TRUE, num |-> [i \in 1..Len(ms) |-> [k \in 1..ms[i] |-> 0]], den |-> 0]
NaNScalar == [nan |-> TRUE, num |-> <<>>, den |-> 0]

\* this.phase = 0.
ZeroPhase(ms) == [nan |-> FALSE, num |-> [i \in 1..Len(ms) |-> 0], den |-> 1]

\* Step 1 of the constructor: the tempo levels M2..M1, delta = hop*fac/sr.
TempoLevels(a) ==
  LET minBPM == Default(a.minBPM, DefaultMinBPM)
      maxBPM == Default(a.maxBPM, DefaultMaxBPM)
      M1 == FloorDiv(60 * a.sr, a.hop * a.fac * minBPM)
      M2 == FloorDiv(60 * a.sr, a.hop * a.fac * maxBPM)
  IN  [n \in 1..(M1 - M2 + 1) |-> M2 + n - 1]

\* Step 1 of the constructor: every slot holds 1/N, N the number of slots.
UniformPrior(ms) ==
  [nan |-> FALSE, num |-> [i \in 1..Len(ms) |-> [k \in 1..ms[i] |-> 1]], den |-> SumSeq(ms)]

\* Math.exp(-lam*Math.abs(Ms[i]/Ms[j] - 1)), in units of 1/BScale.
TransWeight(lam, ms, i, j) == ExpNeg(lam * Abs(ms[i] - ms[j]), ms[j])

\* A table whose every entry is computed from its own ordered pair, none copied.
TransTableAllPairs(lam, ms) ==
  [i \in 1..Len(ms) |-> [j \in 1..Len(ms) |-> TransWeight(lam, ms, i, j)]]

\* Step 2 of the constructor: the loop writes btrans[i][j] for i <= j and copies it
\* to btrans[j][i].
TransTable(lam, ms) ==
  [i \in 1..Len(ms) |-> [j \in 1..Len(ms) |->
     IF i <= j THEN TransWeight(lam, ms, i, j) ELSE TransWeight(lam, ms, j, i)]]

-----------------------------------------------------------------------------
(* OnlineBeat.filter (src/onlinebeat.js, lines 74-117) *)

\* A bProb that takes the mass of the last slot of level i alone.
BeatProbOwnLevel(bt, fnum, i) == bt[i][i] * fnum[i][Len(fnum[i])]

\* bProb of level i: the sum over j of btrans[i][j] * f[j][last slot of j].
BeatProb(bt, fnum, i) ==
  SumSeq([j \in 1..Len(fnum) |-> bt[i][j] * fnum[j][Len(fnum[j])]])

\* Step 1: g[i] is f[i] without its last slot, with bProb put in front.
\* The numerators are in units of 1/(f.den * BScale).
Transition(bt, fnum) ==
  [i \in 1..Len(fnum) |->
     <<BeatProb(bt, fnum, i)>> \o [k \in 1..(Len(fnum[i]) - 1) |-> fnum[i][k] * BScale]]

\* A beat position that is scaled like the other positions, not by pBeat.
BeatMassUnscaled(x, pn, pd, gn, gd) == x * gn * pd

\* Step 2, the beat position: g[i][0] *= pBeat, with pBeat = pn/pd and gamma = gn/gd.
\* The result is in units of 1/(f.den * BScale * pd * gd).
BeatMass(x, pn, pd, gn, gd) == x * pn * gd

\* Step 2, a non beat position: g[i][k] *= gamma.
OffBeatMass(x, pn, pd, gn, gd) == x * gn * pd

Measurement(g, pn, pd, gn, gd) ==
  [i \in 1..Len(g) |-> [k \in 1..Len(g[i]) |->
     IF k = 1 THEN BeatMass(g[i][k], pn, pd, gn, gd)
     ELSE OffBeatMass(g[i][k], pn, pd, gn, gd)]]

\* A norm that leaves out the beat positions.
NormOffBeatOnly(h) ==
  SumSeq([i \in 1..Len(h) |-> SumSeq([k \in 1..(Len(h[i]) - 1) |-> h[i][k + 1]])])

\* norm: the non beat positions, then the beat position, of every level.
Norm(h) ==
  SumSeq([i \in 1..Len(h) |->
     SumSeq([k \in 1..(Len(h[i]) - 1) |-> h[i][k + 1]]) + h[i][1]])

\* The weight 2*Math.abs(0.5 - k/g[i].length) of slot k of a level of M slots, as
\* the numerator over M.
PhaseWeight(k, M) == Abs(M - 2 * k)

\* meanPhase, level by level: the part of level i, in units of 1/Len(h[i]) of the
\* units of h. meanPhase is the sum of the parts.
MeanPhase(h) ==
  [i \in 1..Len(h) |->
     SumSeq([k \in 1..(Len(h[i]) - 1) |-> h[i][k + 1] * PhaseWeight(k, Len(h[i]))])
     + h[i][1] * Len(h[i])]

\* The numerators of a grid in the largest unit that keeps them integers: the grid
\* itself if it is all 0.
Reduced(h) ==
  LET c == GridGCD(h)
  IN  IF c = 0 THEN h ELSE [i \in 1..Len(h) |-> [k \in 1..Len(h[i]) |-> h[i][k] \div c]]

\* Step 3: x/norm for every entry; 0/0 is NaN.
Normalize(h, norm) ==
  IF norm = 0 THEN NaNGrid([i \in 1..Len(h) |-> Len(h[i])])
  ELSE [nan |-> FALSE, num |-> h, den |-> norm]

\* this.phase = meanPhase/norm: the sum over the levels i of num[i]/(Ms[i]*den).
Quotient(mp, norm) ==
  IF norm = 0 THEN NaNScalar
  ELSE LET c == GCD(GCDSeq(mp), norm)
       IN  [nan |-> FALSE, num |-> [i \in 1..Len(mp) |-> mp[i] \div c], den |-> norm \div c]

Novs == {0, 75, 150, 300}

\* A normalizer that follows the latest sample.
LatestSample(nov, m) == IF nov > 0 THEN nov ELSE m

\* Lines 75-77: if (nov > this.max) this.max = nov.
RunningMax(nov, m) == IF nov > m THEN nov ELSE m

filter(nov) ==
  LET newMax == RunningMax(nov, max)
      c  == GCD(nov, newMax)
      pn == nov \div c
      pd == newMax \div c
      g  == Transition(btrans, f.num)
      h  == Reduced(Measurement(g, pn, pd, gamma[1], gamma[2]))
      norm == Norm(h)
  IN  /\ calls < MaxCalls
      /\ max' = newMax
      /\ IF f.nan
         THEN /\ f' = NaNGrid(Ms)
              /\ phase' = NaNScalar
              /\ last' = [nov |-> nov, norm |-> "nan", f |-> f, phase |-> phase, max |-> max]
         ELSE /\ f' = Normalize(h, norm)
              /\ phase' = Quotient(MeanPhase(h), norm)
              /\ last' = [nov |-> nov, norm |-> IF norm = 0 THEN "zero" ELSE "positive",
                          f |-> f, phase |-> phase, max |-> max]
      /\ calls' = calls + 1
      /\ novs' = Append(novs, nov)
      /\ UNCHANGED <<args, Ms, btrans, gamma>>

\* The arguments the constructor is called with: the defaults, and small custom tables.
ArgSets ==
  {[sr |-> 25, hop |-> 7, fac |-> 1, lam |-> {}, minBPM |-> {}, maxBPM |-> {}, gamma |-> {}]}
  \cup [sr : {2, 4}, hop : {1}, fac : {1}, lam : {{1}}, minBPM : {{60}},
        maxBPM : {{120}}, gamma : {{<<0, 1>>}, {<<1, 2>>}}]

InitOnline ==
  /\ args \in ArgSets
  /\ Ms = TempoLevels(args)
  /\ f = UniformPrior(Ms)
  /\ btrans = TransTable(Default(args.lam, DefaultLam), Ms)
  /\ max = InitMax
  /\ phase = ZeroPhase(Ms)
  /\ gamma = Default(args.gamma, DefaultGamma)
  /\ calls = 0
  /\ novs = <<>>
  /\ last = [nov |-> 0, norm |-> "none", f |-> f, phase |-> phase, max |-> max]

NextOnline == \E nov \in Novs : filter(nov)

-----------------------------------------------------------------------------
(* Claims about OnlineBeat *)

DefaultArgs ==
  /\ args.lam = {} /\ args.minBPM = {} /\ args.maxBPM = {} /\ args.gamma = {}

AllSilent == \A n \in 1..Len(novs) : novs[n] = 0

GridNonNegative(x) == \A i \in 1..Len(x.num) : \A k \in 1..Len(x.num[i]) : x.num[i][k] >= 0

\* C1: after every filter call whose normalization constant is a non-zero number,
\* every entry of f is a non-negative number and the entries sum to 1.
C1_GridSumsToOne ==
  last.norm = "positive" =>
    /\ ~f.nan
    /\ f.den > 0
    /\ GridNonNegative(f)
    /\ GridSum(f.num) = f.den

\* C1's case: a second or later call with a positive sample has normalized a grid
\* that is no longer uniform.
C1_Witness ==
  /\ calls >= 2
  /\ last.norm = "positive"
  /\ last.nov > 0
  /\ \E i \in 1..Len(Ms) : \E k \in 1..Ms[i] : f.num[i][k] # f.num[1][1]

\* C4, as stated: with default parameters and only filter(0) calls, f stays the
\* uniform prior and phase stays 0.
C4_SilentStreamKeepsPrior ==
  (DefaultArgs /\ AllSilent) =>
    /\ f = UniformPrior(Ms)
    /\ phase = ZeroPhase(Ms)

\* C4, amended: with default parameters, filter(0) calls change f: it is no longer
\* the uniform prior, and while the normalization constant is non-zero every beat
\* slot holds 0 and the other slots sum to 1; the first call moves phase off 0.
C4_SilentStreamEmptiesBeatSlots ==
  (DefaultArgs /\ AllSilent /\ calls >= 1) =>
    /\ f # UniformPrior(Ms)
    /\ ~f.nan =>
         /\ \A i \in 1..Len(Ms) : f.num[i][1] = 0
         /\ GridSum(f.num) = f.den
    /\ calls = 1 => (phase.nan \/ \E i \in 1..Len(Ms) : phase.num[i] > 0)

\* C4's case: the defaults, and two filter(0) calls made.
C4_Witness ==
  /\ DefaultArgs /\ AllSilent /\ calls = 2
  /\ ~f.nan
  /\ \E i \in 1..Len(Ms) : \E k \in 1..Ms[i] : f.num[i][k] > 0

\* C5, as stated: a filter call whose normalization constant is 0 leaves f and phase
\* as they were, and no entry becomes NaN.
C5_DegenerateCallKeepsState ==
  last.norm = "zero" =>
    /\ f = last.f
    /\ phase = last.phase
    /\ ~f.nan
    /\ ~phase.nan

\* exp(-lam*|Ms[i]/Ms[j] - 1|) as C11 gives it, in units of 1/BScale, for the
\* 1-based levels i and j.
ClaimLam == Default(args.lam, DefaultLam)
ClaimTrans(i, j) == ExpNeg(ClaimLam * Abs(Ms[i] - Ms[j]), Ms[j])

Levels == 1..Len(Ms)

\* C11, as stated: for every ordered pair of levels (i, j), also with i > j,
\* btrans[i][j] = exp(-lam*|Ms[i]/Ms[j] - 1|).
C11_EveryPairByFormula ==
  \A i \in Levels : \A j \in Levels : btrans[i][j] = ClaimTrans(i, j)

\* C11, amended: for i <= j, btrans[i][j] = exp(-lam*|Ms[i]/Ms[j] - 1|), and the
\* table is symmetric: for i > j, btrans[i][j] = btrans[j][i], the value of the pair
\* (j, i).
C11_UpperByFormulaLowerCopied ==
  /\ Len(btrans) = Len(Ms)
  /\ \A i \in Levels : Len(btrans[i]) = Len(Ms)
  /\ \A i \in Levels : \A j \in Levels :
       /\ i <= j => btrans[i][j] = ClaimTrans(i, j)
       /\ i > j => btrans[i][j] = ClaimTrans(j, i)
       /\ btrans[i][j] = btrans[j][i]

\* C11's case: a table with two levels whose two ordered pairs have different values
\* of the formula, with the lower entry holding the value of the upper one.
C11_Witness ==
  \E i \in Levels : \E j \in Levels :
    /\ i < j
    /\ ClaimTrans(i, j) # ClaimTrans(j, i)
    /\ ClaimTrans(i, j) > 0
    /\ btrans[j][i] = ClaimTrans(i, j)

\* The unnormalized new mass of slot k (0-based) of level i as C14 gives it, from the
\* prior last.f of the last call: (nov/max) * sum_j btrans[i][j]*f[j][M_j - 1] for
\* k = 0 and gamma * f[i][k-1] for k >= 1, all in units of
\* 1/(BScale * pd * gamma[2] * last.f.den) with nov/max = pn/pd in lowest terms.
ClaimMass(i, k) ==
  LET c  == GCD(last.nov, max)
      pn == last.nov \div c
      pd == max \div c
  IN  IF k = 0
      THEN pn * gamma[2] *
             SumSeq([j \in 1..Len(Ms) |-> btrans[i][j] * last.f.num[j][Ms[j]]])
      ELSE gamma[1] * pd * BScale * last.f.num[i][k]

ClaimGrid == [i \in 1..Len(Ms) |-> [k \in 1..Ms[i] |-> ClaimMass(i, k - 1)]]

\* C14: after a filter(nov) call with a normalization constant Z that is a non-zero
\* number, f'[i][0] = (nov/max) * (sum over j of btrans[i][j] * f[j][M_j - 1]) / Z and
\* f'[i][k] = gamma * f[i][k-1] / Z for k >= 1, Z being the sum of these masses; the
\* mass of an off-beat slot before the division has no factor that depends on nov.
C14_PosteriorByFormula ==
  last.norm = "positive" =>
    LET c == GridGCD(ClaimGrid)
    IN  /\ c > 0
        /\ f.den * c = GridSum(ClaimGrid)
        /\ \A i \in Levels : \A k \in 1..Ms[i] : f.num[i][k] * c = ClaimGrid[i][k]

\* C14's case: a later call with 0 < nov < max on a table of several levels, in
\* which a beat slot received mass from another level and off-beat slots were
\* attenuated.
C14_Witness ==
  /\ calls >= 2
  /\ last.norm = "positive"
  /\ 0 < last.nov /\ last.nov < max
  /\ gamma[1] > 0
  /\ \E i \in Levels : \E j \in Levels :
       /\ i # j
       /\ btrans[i][j] * last.f.num[j][Ms[j]] > 0
       /\ f.num[i][1] > 0
  /\ \E i \in Levels : \E k \in 2..Ms[i] : f.num[i][k] > 0

\* The weighted sum of C15 over level i of the posterior f, in units of
\* 1/(Ms[i] * f.den): weight 1 = M/M for the beat slot and 2*|0.5 - k/M| = |M - 2k|/M
\* for the off-beat slot k.
ClaimPhasePart(i) ==
  f.num[i][1] * Ms[i]
  + SumSeq([k \in 1..(Ms[i] - 1) |-> f.num[i][k + 1] * Abs(Ms[i] - 2 * k)])

\* phase, a sum over the levels of num[i]/(Ms[i]*den), is the sum of the parts x[i]
\* over Ms[i]*d.
SamePhase(x, d) ==
  LET c == GCD(GCDSeq(x), d)
  IN  /\ ~phase.nan
      /\ phase.den * c = d
      /\ \A i \in Levels : phase.num[i] * c = x[i]

\* phase is a number in [0, 1]: no level contributes more than the mass it holds.
PhaseInUnitInterval ==
  /\ ~phase.nan
  /\ phase.den > 0
  /\ \A i \in Levels : phase.num[i] >= 0
  /\ \/ \A i \in Levels : phase.num[i] = 0
     \/ /\ ~f.nan
        /\ SamePhase([i \in Levels |-> ClaimPhasePart(i)], f.den)
        /\ \A i \in Levels : ClaimPhasePart(i) <= Ms[i] * SumSeq(f.num[i])
        /\ GridSum(f.num) = f.den

\* C15, as stated: after a filter call with a non-zero normalization constant, phase
\* is the weighted sum of the normalized new masses, with weight 1 for the beat slot
\* and 2*|0.5 - k/M| for the off-beat slot k of a level of M slots; and after any
\* sequence of calls with nov >= 0, phase is in [0, 1].
C15_PhaseIsWeightedMeanInUnitInterval ==
  /\ last.norm = "positive" => SamePhase([i \in Levels |-> ClaimPhasePart(i)], f.den)
  /\ PhaseInUnitInterval

\* C16: every step leaves max at least as large as it was; a filter call leaves it
\* the larger of its previous value and the sample passed, so that pBeat = nov/max
\* of that call, with nov >= 0, is a number in [0, 1].
C16_MaxNeverDecreases ==
  [][/\ max' >= max
     /\ calls' # calls =>
          LET nov == novs'[Len(novs')]
          IN  /\ max' = (IF nov > max THEN nov ELSE max)
              /\ max' > 0
              /\ 0 <= nov /\ nov <= max']_vars

\* C16's case: a call has raised max above its initial value and a later call with
\* a smaller positive sample has left it there.
C16_Witness ==
  /\ calls >= 2
  /\ max > InitMax
  /\ \E n \in 1..(Len(novs) - 1) : novs[n] = max
  /\ 0 < novs[Len(novs)] /\ novs[Len(novs)] < max
  /\ last.max = max

-----------------------------------------------------------------------------
(* getBeats (src/features.js, lines 176-221) *)

\* What a read outside a typed array, or at the index undefined, yields.
Undefined == -1

\* A score: a number v/Precision, or NaN.
Num(v) == [nan |-> FALSE, v |-> v]
NaNScore == [nan |-> TRUE, v |-> 0]

\* a + b of doubles: NaN if either is.
Plus(a, b) == IF a.nan \/ b.nan THEN NaNScore ELSE Num(a.v + b.v)

\* a > b, with the comparison taken as >=.
BetterOrEqual(a, b) == ~a.nan /\ ~b.nan /\ a.v >= b.v

\* a > b of doubles: false if either is NaN.
Better(a, b) == ~a.nan /\ ~b.nan /\ a.v > b.v

\* Sum of the series of Precision * atanh(z), z = a/b with 0 <= a < b: the odd powers
\* of z over their exponents.
RECURSIVE AtanhSeries(_, _, _, _)
AtanhSeries(a, b, n, term) ==
  IF term = 0 THEN 0
  ELSE (term \div (2 * n + 1)) + AtanhSeries(a, b, n + 1, (term * a * a) \div (b * b))

\* Precision * Math.pow(Math.log(d/p), 2) for d, p > 0: log(x) = 2*atanh((x-1)/(x+1)).
LogSquared(d, p) ==
  LET l == 2 * AtanhSeries(Abs(d - p), d + p, 0, (Precision * Abs(d - p)) \div (d + p))
  IN  (l * l) \div Precision

Period(a) == FloorDiv(60 * a.sr, a.hop * a.tempo)
I1(a) == -2 * Period(a)
I2(a) == FloorDiv(-Period(a), 2)

\* txcost[k] = -alpha*Math.pow(Math.log(-(i1+k)/period), 2); with period 0 it is the
\* logarithm of 0/0, NaN.
TxCost(a, k) ==
  IF Period(a) = 0 THEN NaNScore
  ELSE Num(-(a.alpha * LogSquared(-(I1(a) + k), Period(a))))

\* txcost.length, which is scorecands.length.
NCands(a) == I2(a) - I1(a) + 1

\* A candidate score without the transition cost.
ScoreCandNoCost(a, tx, cs, j, k) == cs[I1(a) + j + k + 1]

\* scorecands[k] of the outer iteration at index j.
ScoreCand(a, tx, cs, j, k) == Plus(tx[k + 1], cs[I1(a) + j + k + 1])

\* The inner loop (lines 197-204), from candidate k on: the index of the best
\* predecessor found, idx being the best before k.
RECURSIVE Scan(_, _, _, _, _, _)
Scan(a, tx, cs, j, k, idx) ==
  IF k >= Len(tx) THEN idx
  ELSE Scan(a, tx, cs, j, k + 1,
            IF Better(ScoreCand(a, tx, cs, j, k), ScoreCand(a, tx, cs, j, idx)) THEN k ELSE idx)

\* Lines 210-212: the best cumulative score so far.
BestEndpoint(cs, j, best) == IF Better(cs[j + 1], cs[best + 1]) THEN j ELSE best

\* backlink[j], undefined outside the array.
BacklinkAt(j) == IF j \in 0..(Len(backlink) - 1) THEN backlink[j + 1] ELSE Undefined

RECURSIVE Reverse(_)
Reverse(s) == IF s = <<>> THEN <<>> ELSE Append(Reverse(Tail(s)), Head(s))

\* One iteration of the outer loop (lines 193-213).
DPStep ==
  /\ pc = "dp"
  /\ ii < Len(inp.novfn)
  /\ LET idx == Scan(inp, txcost, cscore, ii, 0, 0)
         cs  == [cscore EXCEPT ![ii + 1] =
                   Plus(ScoreCand(inp, txcost, cscore, ii, idx), Num(inp.novfn[ii + 1]))]
     IN  /\ cscore' = cs
         /\ backlink' = [backlink EXCEPT ![ii + 1] = ii + I1(inp) + idx]
         /\ idxcscore' = BestEndpoint(cs, ii, idxcscore)
  /\ ii' = ii + 1
  /\ UNCHANGED <<inp, txcost, beats, pc>>

\* The loop ends; line 215: beats = [idxcscore].
StartBacktrace ==
  /\ pc = "dp"
  /\ ~(ii < Len(inp.novfn))
  /\ beats' = <<idxcscore>>
  /\ pc' = "backtrace"
  /\ UNCHANGED <<inp, cscore, backlink, txcost, ii, idxcscore>>

\* One iteration of the while loop (lines 216-218).
BacktraceStep ==
  /\ pc = "backtrace"
  /\ BacklinkAt(beats[Len(beats)]) # beats[Len(beats)]
  /\ beats' = Append(beats, BacklinkAt(beats[Len(beats)]))
  /\ UNCHANGED <<inp, cscore, backlink, txcost, ii, idxcscore, pc>>

\* The while loop ends; lines 219-220: beats.reverse(); return beats.
ReturnBeats ==
  /\ pc = "backtrace"
  /\ ~(BacklinkAt(beats[Len(beats)]) # beats[Len(beats)])
  /\ beats' = Reverse(beats)
  /\ pc' = "done"
  /\ UNCHANGED <<inp, cscore, backlink, txcost, ii, idxcscore>>

\* The novelty values, in units of 1/Precision.
NovVals == {0, 1000}

NovFns == UNION {[1..n -> NovVals] : n \in 0..MaxN}

BeatInputs ==
  [novfn : NovFns, sr : {2}, hop : {1}, tempo : {40, 60, 120, 240}, alpha : {0, 1}]

\* Lines 177-192: cscore is a copy of novfn, backlink is all 0, txcost is filled, the
\* loop starts at -i1+1.
InitBeats ==
  /\ inp \in BeatInputs
  /\ cscore = [j \in 1..Len(inp.novfn) |-> Num(inp.novfn[j])]
  /\ backlink = [j \in 1..Len(inp.novfn) |-> 0]
  /\ txcost = [k \in 1..NCands(inp) |-> TxCost(inp, k - 1)]
  /\ ii = -I1(inp) + 1
  /\ idxcscore = 0
  /\ beats = <<>>
  /\ pc = "dp"

-----------------------------------------------------------------------------
(* Claims about getBeats *)

NovLen == Len(inp.novfn)

\* period, i1 = floor(-2*period), i2 = floor(-period/2) and the transition costs as
\* the claims give them.
ClaimPeriod == (60 * inp.sr) \div (inp.hop * inp.tempo)
ClaimI1 == -2 * ClaimPeriod
ClaimI2 == -((ClaimPeriod + 1) \div 2)

\* The indices on which the recurrence has run so far, and on which it runs in all.
Processed == {j \in 0..(NovLen - 1) : -ClaimI1 + 1 <= j /\ j < ii}
ToProcess == {j \in 0..(NovLen - 1) : -ClaimI1 + 1 <= j}
ClaimTxCost(k) ==
  IF ClaimPeriod = 0 THEN NaNScore
  ELSE Num(-(inp.alpha * LogSquared(-(ClaimI1 + k), ClaimPeriod)))

CandIdx == 0..(ClaimI2 - ClaimI1)

\* txcost[k] + cscore[j+i1+k], from the state.
CandScore(j, k) == Plus(txcost[k + 1], cscore[j + ClaimI1 + k + 1])

Greater(a, b) == ~a.nan /\ ~b.nan /\ a.v > b.v

\* A greatest score of a set: one that none of the set exceeds.
MaxScore(set) == CHOOSE m \in set : \A x \in set : ~Greater(x, m)

ReturnedInRange == \A n \in 1..Len(beats) : beats[n] \in 0..(NovLen - 1)
ReturnedIncreasing == \A n \in 1..(Len(beats) - 1) : beats[n] < beats[n + 1]

\* C2, as stated: whenever getBeats returns, also for an empty or short novfn, the
\* beats are strictly increasing integer indices in [0, novfn.length).
C2_BeatsIncreasingInRange ==
  pc = "done" => (ReturnedIncreasing /\ ReturnedInRange)

\* C6: of the candidates with the greatest txcost[k] + cscore[i+i1+k], backlink[i]
\* records the one of lowest k; and of the indices scanned for the endpoint (0 and
\* the processed ones) with the greatest cscore, the endpoint is the lowest.
C6_TiesGoToLowestIndex ==
  /\ \A j \in Processed :
       LET kb == backlink[j + 1] - j - ClaimI1
       IN  /\ kb \in CandIdx
           /\ \A k \in CandIdx : ~Greater(CandScore(j, k), CandScore(j, kb))
           /\ \A k \in CandIdx : k < kb => Greater(CandScore(j, kb), CandScore(j, k))
  /\ (pc \in {"backtrace", "done"} /\ NovLen >= 1) =>
       /\ idxcscore \in {0} \cup Processed
       /\ \A j \in {0} \cup Processed : ~Greater(cscore[j + 1], cscore[idxcscore + 1])
       /\ \A j \in {0} \cup Processed :
            j < idxcscore => Greater(cscore[idxcscore + 1], cscore[j + 1])

\* C6's case: with a transition cost in force, two candidates tie for the greatest
\* score and the returned beats go through the lower one.
C6_Witness ==
  /\ pc = "done"
  /\ inp.alpha = 1
  /\ \E j \in Processed : \E k1, k2 \in CandIdx :
       /\ k1 < k2
       /\ CandScore(j, k1) = CandScore(j, k2)
       /\ \A k \in CandIdx : ~Greater(CandScore(j, k), CandScore(j, k1))
       /\ backlink[j + 1] = j + ClaimI1 + k1
       /\ \E n \in 1..(Len(beats) - 1) : beats[n + 1] = j /\ beats[n] = j + ClaimI1 + k1

\* C7: cscore[i] = novfn[i] + max over k of (txcost[k] + cscore[i+i1+k]) for every
\* index the loop has processed, from -i1+1 on in increasing order; every other
\* index holds novfn[i].
C7_Recurrence ==
  /\ Len(txcost) = ClaimI2 - ClaimI1 + 1
  /\ \A k \in CandIdx : txcost[k + 1] = ClaimTxCost(k)
  /\ \A j \in 0..(NovLen - 1) :
       IF j \in Processed
       THEN cscore[j + 1] =
              Plus(Num(inp.novfn[j + 1]), MaxScore({CandScore(j, k) : k \in CandIdx}))
       ELSE cscore[j + 1] = Num(inp.novfn[j + 1])

\* C7's case: the recurrence ran on an index whose best predecessor was itself
\* processed, under a transition cost that is not 0.
C7_Witness ==
  /\ pc = "done"
  /\ inp.alpha = 1
  /\ \E j \in Processed :
       /\ backlink[j + 1] \in Processed
       /\ txcost[backlink[j + 1] - j - ClaimI1 + 1].v < 0
       /\ cscore[j + 1].v > inp.novfn[j + 1]

\* C8, as stated: the backtrace starts from the arg-max of cscore over the processed
\* indices [-i1+1, N), and that index is the last of the returned beats.
C8_EndpointAmongProcessed ==
  (pc = "done" /\ ClaimPeriod >= 1 /\ ToProcess # {}) =>
    /\ idxcscore \in ToProcess
    /\ \A j \in ToProcess : ~Greater(cscore[j + 1], cscore[idxcscore + 1])
    /\ beats[Len(beats)] = idxcscore

\* C9, as stated: for a novfn with no index to process (novfn.length <= 2*period+1,
\* or empty) getBeats fails and returns no beat sequence.
C9_ShortNovfnFails ==
  NovLen <= 2 * ClaimPeriod + 1 => pc # "done"


\* C17, as stated, on what the backtrace has done when getBeats returns: it went
\* from the best endpoint along backlink, in at most N steps, to an index j with
\* backlink[j] = j, and the indices collected are returned in reversed order, each
\* beat being the backlink of the next.
C17_BacktraceReachesSelfLoop ==
  /\ pc \in {"backtrace", "done"} => Len(beats) - 1 <= NovLen
  /\ pc = "done" =>
       /\ beats[Len(beats)] = idxcscore
       /\ beats[1] \in 0..(NovLen - 1)
       /\ backlink[beats[1] + 1] = beats[1]
       /\ \A n \in 1..(Len(beats) - 1) :
            /\ beats[n + 1] \in 0..(NovLen - 1)
            /\ beats[n] = backlink[beats[n + 1] + 1]

\* C18, as stated: in a returned beat sequence with period >= 1, every two
\* consecutive beats, the first two included, are between -i2 and -i1 apart. Stated
\* for the sequences that hold indices only, those of a novfn that is not empty.
C18_SpacingWithinWindow ==
  (pc = "done" /\ ClaimPeriod >= 1 /\ NovLen >= 1) =>
    \A n \in 1..(Len(beats) - 1) :
      /\ -ClaimI2 <= beats[n + 1] - beats[n]
      /\ beats[n + 1] - beats[n] <= -ClaimI1

-----------------------------------------------------------------------------
(* The novelty loops of getNovfn (src/features.js, lines 105-113) and of
   getSuperfluxNovfn (lines 151-159) *)

\* A double: a number, -Infinity, +Infinity or NaN.
Fin(v) == [kind |-> "num", v |-> v]
NegInf == [kind |-> "ninf", v |-> 0]
PosInf == [kind |-> "pinf", v |-> 0]
NaN == [kind |-> "nan", v |-> 0]

\* a - b of doubles.
Diff(a, b) ==
  CASE a.kind = "nan" \/ b.kind = "nan" -> NaN
    [] a.kind = "num" /\ b.kind = "num" -> Fin(a.v - b.v)
    [] a.kind = b.kind -> NaN
    [] a.kind = "pinf" \/ b.kind = "ninf" -> PosInf
    [] OTHER -> NegInf

\* diff > 0, with the test left out: every difference that is a number is added.
AnyDiff(d) == d.kind # "nan"

\* diff > 0 of doubles: false for NaN.
IsPositive(d) == d.kind = "pinf" \/ (d.kind = "num" /\ d.v > 0)

\* x += d, for a d that is not NaN.
Accumulate(x, d) ==
  CASE x.kind = "num" /\ d.kind = "num" -> Fin(x.v + d.v)
    [] x.kind = d.kind -> x
    [] x.kind = "num" -> d
    [] d.kind = "num" -> x
    [] OTHER -> NaN

\* The bins of a frame (win/2+1 of them, for win = 2).
Bins == {1, 2}

\* The inner loop over the bins k of frame n (0-based), from the bins in todo on.
RECURSIVE BinLoop(_, _, _, _, _)
BinLoop(s, n, gap, todo, acc) ==
  IF todo = {} THEN acc
  ELSE LET k == CHOOSE x \in todo : \A y \in todo : x <= y
           d == Diff(s[n + gap + 1][k], s[n + 1][k])
       IN  BinLoop(s, n, gap, todo \ {k}, IF IsPositive(d) THEN Accumulate(acc, d) ELSE acc)

DefaultMu == 3

\* new Float32Array(S.length - mu): a RangeError for a negative length.
AllocNovfn ==
  /\ npc = "alloc"
  /\ IF Len(S) - mu < 0
     THEN npc' = "threw" /\ UNCHANGED novfn
     ELSE npc' = "loop" /\ novfn' = [n \in 1..(Len(S) - mu) |-> Fin(0)]
  /\ UNCHANGED <<variant, mu, S, ni, result>>

\* One iteration of the outer loop.
NovfnStep ==
  /\ npc = "loop"
  /\ ni < Len(novfn)
  /\ novfn' = [novfn EXCEPT ![ni + 1] = BinLoop(S, ni, mu, Bins, novfn[ni + 1])]
  /\ ni' = ni + 1
  /\ UNCHANGED <<variant, mu, S, npc, result>>

\* No value of the promise yet.
NoResult == [global |-> FALSE, S |-> <<>>, novfn |-> <<>>]

\* resolve({S:S, novfn:novfn}) with an S that is a local of the function.
ResolveOwn ==
  /\ npc' = "done"
  /\ result' = [global |-> FALSE, S |-> S, novfn |-> novfn]

\* resolve({S:S, novfn:novfn}) in getNovfn (line 114), where the spectrogram is
\* called Sdb and no S is declared: the name is looked up in the global scope. The
\* sources declare no global S, and the evaluation throws a ReferenceError inside the
\* then callback, so the promise is never resolved; on a page that has a global S
\* the promise is resolved with that value in place of the spectrogram.
ResolveUndeclared ==
  \/ npc' = "threw" /\ UNCHANGED result
  \/ npc' = "done" /\ result' = [global |-> TRUE, S |-> <<>>, novfn |-> novfn]

\* The outer loop ends, and the promise is resolved (lines 114 and 160).
NovfnDone ==
  /\ npc = "loop"
  /\ ~(ni < Len(novfn))
  /\ IF variant = "getNovfn" THEN ResolveUndeclared ELSE ResolveOwn
  /\ UNCHANGED <<variant, mu, S, novfn, ni>>

\* The values of a bin: 10*log10 of a power (-Infinity for silence), or the log of a
\* mel magnitude.
BinVals == {NegInf, Fin(0), Fin(2)}

FrameSeqs == UNION {[1..n -> [Bins -> BinVals]] : n \in 0..MaxFrames}

InitNovfn ==
  /\ variant \in {"getNovfn", "getSuperfluxNovfn"}
  /\ mu \in IF variant = "getNovfn" THEN {1} ELSE {Default(m, DefaultMu) : m \in {{}, {1}, {2}}}
  /\ S \in FrameSeqs
  /\ novfn = <<>>
  /\ ni = 0
  /\ npc = "alloc"
  /\ result = NoResult

-----------------------------------------------------------------------------
(* Claims about the novelty functions *)

NonNegative(x) == x.kind = "pinf" \/ (x.kind = "num" /\ x.v >= 0)

\* S[n+mu][k] - S[n][k] for the 0-based frame n, and whether it is strictly positive.
FrameDiff(n, k) == Diff(S[n + mu + 1][k], S[n + 1][k])
StrictlyPositive(d) == d.kind = "pinf" \/ (d.kind = "num" /\ d.v > 0)

RECURSIVE SumOver(_, _)
SumOver(set, n) ==
  IF set = {} THEN 0
  ELSE LET k == CHOOSE x \in set : TRUE
       IN  FrameDiff(n, k).v + SumOver(set \ {k}, n)

\* The sum over the bins of the strictly positive differences of frame n: +Infinity
\* if one of them is, else their sum.
PositiveFlux(n) ==
  LET pos == {k \in Bins : StrictlyPositive(FrameDiff(n, k))}
  IN  IF \E k \in pos : FrameDiff(n, k).kind = "pinf" THEN PosInf ELSE Fin(SumOver(pos, n))

\* C3: every value of the novelty function is >= 0, in getNovfn (frames 1 apart) and
\* in getSuperfluxNovfn (frames mu apart): a filled entry is the sum over the bins of
\* the strictly positive differences only, an entry not yet filled is 0.
C3_NoveltyNonNegative ==
  \A n \in 0..(Len(novfn) - 1) :
    /\ NonNegative(novfn[n + 1])
    /\ novfn[n + 1] = IF n < ni THEN PositiveFlux(n) ELSE Fin(0)

\* C3's case: getSuperfluxNovfn with frames 2 apart has filled an entry from a frame
\* pair with a rising bin, which is counted, and a falling bin, which is not.
C3_Witness ==
  /\ npc = "done"
  /\ variant = "getSuperfluxNovfn"
  /\ mu = 2
  /\ \E n \in 0..(Len(novfn) - 1) : \E k1, k2 \in Bins :
       /\ FrameDiff(n, k1) = Fin(2)
       /\ FrameDiff(n, k2) = Fin(-2)
       /\ novfn[n + 1] = Fin(2)

\* C13, stated on the outcome: for a spectrogram of at least two frames the
\* computation of getNovfn does not stop short of resolving the promise, and the
\* promise is resolved with the spectrogram as S and with a novfn of one entry less
\* than the spectrogram has frames.
C13_GetNovfnResolves ==
  (variant = "getNovfn" /\ Len(S) >= 2) =>
    /\ npc # "threw"
    /\ npc = "done" =>
         /\ ~result.global
         /\ result.S = S
         /\ Len(result.novfn) = Len(S) - 1

-----------------------------------------------------------------------------
(* getSpectrogram (src/features.js, lines 68-92) *)

RECURSIVE IsPowerOfTwo(_)
IsPowerOfTwo(n) == n = 1 \/ (n > 1 /\ n % 2 = 0 /\ IsPowerOfTwo(n \div 2))

\* new FFTJS(win): the FFT library is not part of the sources. It transforms sizes
\* that are powers of two bigger than 1; for any other size the constructor may
\* throw or may return.
FFTConstructs(win) == win > 1 /\ IsPowerOfTwo(win)

\* Math.floor(1+(samples.length-win)/hop); a division by 0 gives +-Infinity or NaN.
FrameCount(a) ==
  IF a.hop = 0
  THEN (IF a.len - a.win > 0 THEN PosInf ELSE IF a.len - a.win < 0 THEN NegInf ELSE NaN)
  ELSE Fin(1 + FloorDiv(a.len - a.win, a.hop))

\* i < W of doubles.
BelowCount(n, w) == w.kind = "pinf" \/ (w.kind = "num" /\ n < w.v)

\* Lines 70-73: the executor of the promise starts; an exception rejects the promise.
BeginSpectrogram ==
  /\ spc = "start"
  /\ \/ spc' = "loop" /\ W' = FrameCount(sargs)
     \/ ~FFTConstructs(sargs.win) /\ spc' = "rejected" /\ UNCHANGED W
  /\ UNCHANGED <<sargs, frames, si>>

\* One iteration of the loop (lines 74-89): the frame of samples.slice(i*hop, i*hop+win).
FrameStep ==
  /\ spc = "loop"
  /\ BelowCount(si, W)
  /\ si < MaxLen
  /\ frames' = Append(frames, <<si * sargs.hop, si * sargs.hop + sargs.win>>)
  /\ si' = si + 1
  /\ UNCHANGED <<sargs, W, spc>>

\* The loop ends; line 90: resolve(S).
ResolveSpectrogram ==
  /\ spc = "loop"
  /\ ~BelowCount(si, W)
  /\ spc' = "resolved"
  /\ UNCHANGED <<sargs, W, frames, si>>

SpectrogramArgs ==
  [len : 0..MaxLen, win : {-2, 0, 1, 2, 3, 4}, hop : {-1, 0, 1, 2}, useDb : BOOLEAN]

InitSpectrogram ==
  /\ sargs \in SpectrogramArgs
  /\ W = NaN
  /\ frames = <<>>
  /\ si = 0
  /\ spc = "start"

-----------------------------------------------------------------------------
(* Claims about getSpectrogram *)

InvalidSpectrogramArgs ==
  \/ sargs.win % 2 # 0
  \/ sargs.win <= 0
  \/ sargs.hop <= 0
  \/ sargs.len < sargs.win

\* C10, as stated: for a win that is odd or <= 0, a hop <= 0 or fewer samples than
\* win, getSpectrogram fails at entry: it computes no frame and does not resolve.
\* The code has no test of its own, and what a win that the FFT library does not
\* support does rests with the library; the claim is stated here for the calls whose
\* win the library supports, that is for a hop <= 0 or fewer samples than win.
C10_InvalidArgsFailFast ==
  (InvalidSpectrogramArgs /\ FFTConstructs(sargs.win))
    => (spc # "resolved" /\ frames = <<>>)

-----------------------------------------------------------------------------
(* getMelFilterbank (src/features.js, lines 20-58) *)

RECURSIVE Pow(_, _)
Pow(b, n) == IF n = 0 THEN 1 ELSE b * Pow(b, n - 1)

\* K = win/2+1, the number of rows.
Rows(a) == a.win \div 2 + 1

\* Math.round of the fraction n/d >= 0.
Round(n, d) == (2 * n + d) \div (2 * d)

\* Lines 23-30: bins[0] = minFreq*win/sr, bins[i] = bins[i-1]*a, then every entry is
\* rounded.
Edges(a) ==
  [n \in 1..(a.nBins + 2) |->
     Round(a.e0[1] * Pow(a.a[1], n - 1), a.e0[2] * Pow(a.a[2], n - 1))]

\* Lines 39-47: the edges of filter i (0-based) after the two corrections.
EdgeLow(b, i) == b[i + 1]
EdgeMid(b, i) == IF b[i + 1] = b[i + 2] THEN b[i + 2] + 1 ELSE b[i + 2]
EdgeHigh(b, i) == IF b[i + 3] <= EdgeMid(b, i) THEN EdgeMid(b, i) + 1 ELSE b[i + 3]

\* A fraction in lowest terms.
Frac(n, d) == LET c == GCD(Abs(n), d) IN <<n \div c, d \div c>>

\* Lines 48-55: what the two loops write at row k of the column of filter i.
Ramp(b, i, k) ==
  IF k < EdgeMid(b, i)
  THEN Frac(k - EdgeLow(b, i), EdgeMid(b, i) - EdgeLow(b, i))
  ELSE Frac(EdgeHigh(b, i) - k, EdgeHigh(b, i) - EdgeMid(b, i))

\* The rows the two loops go through, in increasing order, and those of them that
\* the matrix does not have: Mel[k] is undefined there and Mel[k][i] = ... throws.
Visited(b, i) == {k \in EdgeLow(b, i)..(EdgeHigh(b, i) - 1) : TRUE}
Missing(b, i, K) == {k \in Visited(b, i) : k < 0 \/ k >= K}
Written(b, i, K) == {k \in Visited(b, i) : \A x \in Missing(b, i, K) : k < x}

\* One iteration of the loop over the filters (lines 38-56).
FilterStep ==
  /\ mpc = "fill"
  /\ mi < margs.nBins
  /\ Mel' = [k \in 1..Len(Mel) |-> [i \in 1..Len(Mel[k]) |->
               IF i = mi + 1 /\ (k - 1) \in Written(bins, mi, Rows(margs))
               THEN Ramp(bins, mi, k - 1) ELSE Mel[k][i]]]
  /\ IF Missing(bins, mi, Rows(margs)) = {}
     THEN mi' = mi + 1 /\ mpc' = mpc
     ELSE mi' = mi /\ mpc' = "threw"
  /\ UNCHANGED <<margs, bins>>

\* The loop ends; line 57: return Mel.
ReturnMel ==
  /\ mpc = "fill"
  /\ ~(mi < margs.nBins)
  /\ mpc' = "returned"
  /\ UNCHANGED <<margs, bins, Mel, mi>>

\* The arguments: maxFreq = minFreq * a^(nBins+1) is at most sr/2, so that the last
\* edge before rounding is at most win/2.
MelArgs ==
  {a \in [win : {2, 4, 8}, nBins : 1..MaxBins,
           e0 : {<<1, 4>>, <<1, 2>>, <<1, 1>>, <<3, 2>>},
           a : {<<5, 4>>, <<3, 2>>, <<2, 1>>}] :
     2 * a.e0[1] * Pow(a.a[1], a.nBins + 1) <= a.win * a.e0[2] * Pow(a.a[2], a.nBins + 1)}

InitMel ==
  /\ margs \in MelArgs
  /\ bins = Edges(margs)
  /\ Mel = [k \in 1..Rows(margs) |-> [i \in 1..margs.nBins |-> <<0, 1>>]]
  /\ mi = 0
  /\ mpc = "fill"

-----------------------------------------------------------------------------
(* Claims about getMelFilterbank *)

\* The filters whose column is complete.
Built == {i \in 0..(margs.nBins - 1) : i < mi}

\* C12, as stated: for every filter i with corrected edges (i1, i2, i3), column i is
\* 0 outside [i1, i3), is 1 at i2 and nowhere else, rises linearly from 0 at i1 over
\* [i1, i2) and falls linearly from 1 over [i2, i3); and every bin written is one of
\* the win/2+1 rows: no filter makes the call fail.
C12_TriangularColumns ==
  /\ mpc # "threw"
  /\ \A i \in Built :
       LET i1 == EdgeLow(bins, i)
           i2 == EdgeMid(bins, i)
           i3 == EdgeHigh(bins, i)
       IN  /\ 0 <= i1 /\ i3 <= Rows(margs)
           /\ \A k \in 0..(Rows(margs) - 1) :
                LET x == Mel[k + 1][i + 1]
                IN  /\ (k < i1 \/ k >= i3) => x = <<0, 1>>
                    /\ (x = <<1, 1>>) <=> (k = i2)
                    /\ (i1 <= k /\ k < i2) => x[1] * (i2 - i1) = x[2] * (k - i1)
                    /\ (i2 <= k /\ k < i3) => x[1] * (i3 - i2) = x[2] * (i3 - k)

-----------------------------------------------------------------------------
(* SampledAudio (src/audio.js, lines 313-480): samples, recording, getSpectrogram *)

\* The arrays given to setSamples.
GivenSamples == {1, 2}

\* The audio decoded for the promise p.
Decoded(p) == 10 + p

\* Lines 397-410.
setSamples(v) ==
  /\ audioPromise' = 0
  /\ samples' = v
  /\ UNCHANGED <<made, settled, recorder, buttons, requests>>

\* Lines 336-361: audioPromise is reset, the buttons are looked up, the microphone is
\* asked for.
startRecording ==
  /\ recorder \in {"none", "stopped"}
  /\ made < MaxRecordings
  /\ audioPromise' = 0
  /\ buttons' = TRUE
  /\ recorder' = "asking"
  /\ UNCHANGED <<samples, made, settled, requests>>

\* Lines 349-358: getUserMedia resolves, the MediaRecorder is made and started.
StreamReady ==
  /\ recorder = "asking"
  /\ recorder' = "recording"
  /\ UNCHANGED <<samples, audioPromise, made, settled, buttons, requests>>

\* Lines 362-388. Without buttons nothing happens; this.mediaRecorder.stop() throws
\* unless a recorder is recording, and then audioPromise is not assigned.
stopRecording ==
  /\ buttons
  /\ recorder = "recording"
  /\ made < MaxRecordings
  /\ recorder' = "stopped"
  /\ made' = made + 1
  /\ audioPromise' = made + 1
  /\ UNCHANGED <<samples, settled, buttons, requests>>

\* Lines 372-384: the chunks are decoded; the callback of decodeAudioData sets sr
\* and samples and resolves the promise p.
DecodeDone(p) ==
  /\ p \in 1..made
  /\ p \notin settled
  /\ samples' = Decoded(p)
  /\ settled' = settled \cup {p}
  /\ UNCHANGED <<audioPromise, made, recorder, buttons, requests>>

\* Line 472: !that.audioPromise === null. The negation is a boolean, and a boolean
\* is never identical to null.
NotThenIdentical(ap) == FALSE

\* Lines 452-479: the executor of the new promise. In the branch taken,
\* that.audioPromise.then(process) throws a TypeError for a null audioPromise, which
\* rejects the new promise; process() resolves it with the spectrogram of
\* that.samples.
getSpectrogram ==
  /\ Len(requests) < MaxRequests
  /\ requests' = Append(requests,
       [at    |-> audioPromise,
        had   |-> samples,
        state |-> IF NotThenIdentical(audioPromise) THEN "resolved"
                  ELSE IF audioPromise = 0 THEN "rejected" ELSE "pending",
        of    |-> IF NotThenIdentical(audioPromise) THEN samples ELSE 0])
  /\ UNCHANGED <<samples, audioPromise, made, settled, recorder, buttons>>

\* process, run as the then callback of the audio promise it was put on, once that
\* promise is resolved.
Process(n) ==
  /\ n \in 1..Len(requests)
  /\ requests[n].state = "pending"
  /\ requests[n].at \in settled
  /\ requests' = [requests EXCEPT ![n] = [@ EXCEPT !.state = "resolved", !.of = samples]]
  /\ UNCHANGED <<samples, audioPromise, made, settled, recorder, buttons>>

\* Lines 313-329: the constructor.
InitAudio ==
  /\ samples = 0
  /\ audioPromise = 0
  /\ made = 0
  /\ settled = {}
  /\ recorder = "none"
  /\ buttons = FALSE
  /\ requests = <<>>

-----------------------------------------------------------------------------
(* Claims about SampledAudio *)

\* C19, as stated: a getSpectrogram call made when the samples were installed by
\* setSamples (audioPromise is null) is processed at once and its promise is resolved
\* with the spectrogram of those samples; a call made after a recording was stopped
\* is never rejected, and is resolved only once the decode has set samples, with the
\* spectrogram of the samples then current.
C19_SpectrogramPromiseResolves ==
  \A n \in 1..Len(requests) :
    LET r == requests[n]
    IN  /\ (r.at = 0 /\ r.had \in GivenSamples) =>
             (r.state = "resolved" /\ r.of = r.had)
        /\ r.at # 0 =>
             /\ r.state # "rejected"
             /\ r.state = "resolved" => (r.at \in settled /\ r.of # 0)

-----------------------------------------------------------------------------
(* The specifications: one function or object at a time, the others not in use *)

IdleOnline ==
  /\ args = [sr |-> 2, hop |-> 1, fac |-> 1, lam |-> {}, minBPM |-> {}, maxBPM |-> {}, gamma |-> {}]
  /\ Ms = <<>>
  /\ f = NaNGrid(<<>>)
  /\ btrans = <<>>
  /\ max = InitMax
  /\ phase = NaNScalar
  /\ gamma = DefaultGamma
  /\ calls = 0
  /\ novs = <<>>
  /\ last = [nov |-> 0, norm |-> "none", f |-> f, phase |-> phase, max |-> max]

IdleBeats ==
  /\ inp = [novfn |-> <<>>, sr |-> 2, hop |-> 1, tempo |-> 60, alpha |-> 0]
  /\ cscore = <<>>
  /\ backlink = <<>>
  /\ txcost = <<>>
  /\ ii = 0
  /\ idxcscore = 0
  /\ beats = <<>>
  /\ pc = "idle"

IdleNovfn ==
  /\ variant = "getNovfn"
  /\ mu = 1
  /\ S = <<>>
  /\ novfn = <<>>
  /\ ni = 0
  /\ npc = "idle"
  /\ result = NoResult

IdleSpectrogram ==
  /\ sargs = [len |-> 0, win |-> 2, hop |-> 1, useDb |-> FALSE]
  /\ W = NaN
  /\ frames = <<>>
  /\ si = 0
  /\ spc = "idle"

IdleMel ==
  /\ margs = [win |-> 2, nBins |-> 0, e0 |-> <<1, 1>>, a |-> <<1, 1>>]
  /\ bins = <<>>
  /\ Mel = <<>>
  /\ mi = 0
  /\ mpc = "idle"

\* No SampledAudio in use: the state of a new one.
IdleAudio == InitAudio

othersOfOnline == <<gbVars, nvVars, sgVars, mfVars, saVars>>
othersOfBeats == <<obVars, nvVars, sgVars, mfVars, saVars>>
othersOfNovfn == <<obVars, gbVars, sgVars, mfVars, saVars>>
othersOfSpectrogram == <<obVars, gbVars, nvVars, mfVars, saVars>>
othersOfMel == <<obVars, gbVars, nvVars, sgVars, saVars>>
othersOfAudio == <<obVars, gbVars, nvVars, sgVars, mfVars>>

StartOnline == InitOnline /\ IdleBeats /\ IdleNovfn /\ IdleSpectrogram /\ IdleMel /\ IdleAudio
StepOnline == NextOnline /\ UNCHANGED othersOfOnline
SpecOnline == StartOnline /\ [][StepOnline]_vars

StartBeats == InitBeats /\ IdleOnline /\ IdleNovfn /\ IdleSpectrogram /\ IdleMel /\ IdleAudio
StepBeats ==
  \/ DPStep /\ UNCHANGED othersOfBeats
  \/ StartBacktrace /\ UNCHANGED othersOfBeats
  \/ BacktraceStep /\ UNCHANGED othersOfBeats
  \/ ReturnBeats /\ UNCHANGED othersOfBeats
SpecBeats == StartBeats /\ [][StepBeats]_vars

StartNovfn == InitNovfn /\ IdleOnline /\ IdleBeats /\ IdleSpectrogram /\ IdleMel /\ IdleAudio
StepNovfn ==
  \/ AllocNovfn /\ UNCHANGED othersOfNovfn
  \/ NovfnStep /\ UNCHANGED othersOfNovfn
  \/ NovfnDone /\ UNCHANGED othersOfNovfn
SpecNovfn == StartNovfn /\ [][StepNovfn]_vars

StartSpectrogram == InitSpectrogram /\ IdleOnline /\ IdleBeats /\ IdleNovfn /\ IdleMel /\ IdleAudio
StepSpectrogram ==
  \/ BeginSpectrogram /\ UNCHANGED othersOfSpectrogram
  \/ FrameStep /\ UNCHANGED othersOfSpectrogram
  \/ ResolveSpectrogram /\ UNCHANGED othersOfSpectrogram
SpecSpectrogram == StartSpectrogram /\ [][StepSpectrogram]_vars

StartMel == InitMel /\ IdleOnline /\ IdleBeats /\ IdleNovfn /\ IdleSpectrogram /\ IdleAudio
StepMel ==
  \/ FilterStep /\ UNCHANGED othersOfMel
  \/ ReturnMel /\ UNCHANGED othersOfMel
SpecMel == StartMel /\ [][StepMel]_vars

StartAudio == InitAudio /\ IdleOnline /\ IdleBeats /\ IdleNovfn /\ IdleSpectrogram /\ IdleMel
StepAudio ==
  \/ (\E v \in GivenSamples : setSamples(v)) /\ UNCHANGED othersOfAudio
  \/ startRecording /\ UNCHANGED othersOfAudio
  \/ StreamReady /\ UNCHANGED othersOfAudio
  \/ stopRecording /\ UNCHANGED othersOfAudio
  \/ (\E p \in 1..MaxRecordings : DecodeDone(p)) /\ UNCHANGED othersOfAudio
  \/ getSpectrogram /\ UNCHANGED othersOfAudio
  \/ (\E n \in 1..MaxRequests : Process(n)) /\ UNCHANGED othersOfAudio
SpecAudio == StartAudio /\ [][StepAudio]_vars

=============================================================================
